---------------------------- MODULE Spec2Model ----------------------------
(***************************************************************************)
(* A model of dbtmetabase/dbt.py: DbtReader.read_models, read_model,       *)
(* read_column and parse_ref.                                              *)
(*                                                                         *)
(* Data representation                                                     *)
(*   - a Python str is a sequence of one-character strings;                *)
(*   - a Python dict is a function whose DOMAIN is the set of keys present *)
(*     (so "key in d" is  key \in DOMAIN d  and d.get(k, x) is Get);       *)
(*   - a Python list is a sequence;                                        *)
(*   - a YAML node whose Python type the code inspects (a test of a        *)
(*     column, a whole document) is a record tagged with its kind: "null", *)
(*     "str" (field str), "list" (field list) or "dict" (field value);     *)
(*   - a call that may raise yields an outcome record [exc, val, log]:     *)
(*     the exception raised (NoExc when it returned), the value returned,  *)
(*     and the warnings it logged.                                         *)
(***************************************************************************)
EXTENDS Integers, Sequences, FiniteSets, TLC

VARIABLES
    text, ref_out, ref_pc,          \* parse_ref: argument, result, position
    column, col_out, col_pc,        \* read_column: argument, outcome, position
    docs, includes, excludes,       \* read_models: the *.yml documents found, the filters
    pc, di, mi, si, ti,             \* read_models: position in the nested loops
    mb_models,                      \* read_models: the accumulating local list
    ret,                            \* read_models: the returned list (NoReturn until it returns)
    exc,                            \* read_models: the exception that ended the call
    warnings                        \* the warnings logged so far

refVars == <<text, ref_out, ref_pc>>
colVars == <<column, col_out, col_pc>>
scanVars == <<docs, includes, excludes, pc, di, mi, si, ti, mb_models, ret, exc, warnings>>
vars == <<refVars, colVars, scanVars>>

---------------------------------------------------------------------------
(* Bounds of the model.                                                    *)

\* parse_ref's argument is a concatenation of at most MaxPieces pieces.
MaxPieces == 2
\* a column has at most MaxTests tests.
MaxTests == 2
\* a project has at most MaxSize documents, sources and model/table entries in total.
MaxSize == 4

---------------------------------------------------------------------------
(* Python values.                                                          *)

\* None; no str of the model equals it (a str holds one-character strings).
None == <<"None">>

\* d.get(k, default); the caller has already evaluated `default`.
Get(dict, k, default) == IF k \in DOMAIN dict THEN dict[k] ELSE default

\* d[k] = v
SetItem(dict, k, v) == [x \in (DOMAIN dict) \cup {k} |-> IF x = k THEN v ELSE dict[x]]

LowerSeq == <<"a","b","c","d","e","f","g","h","i","j","k","l","m",
              "n","o","p","q","r","s","t","u","v","w","x","y","z">>
UpperSeq == <<"A","B","C","D","E","F","G","H","I","J","K","L","M",
              "N","O","P","Q","R","S","T","U","V","W","X","Y","Z">>
Digits == {"0","1","2","3","4","5","6","7","8","9"}

Range(f) == {f[x] : x \in DOMAIN f}

UpperChar(c) ==
    IF c \in Range(LowerSeq)
    THEN UpperSeq[CHOOSE i \in DOMAIN LowerSeq : LowerSeq[i] = c]
    ELSE c

\* str.upper()
RECURSIVE upper(_)
upper(str) == IF str = <<>> THEN <<>> ELSE <<UpperChar(Head(str))>> \o upper(Tail(str))

\* LET x == value IN body(x), with the value computed once, before the body
With(value, body(_)) == CHOOSE y \in { body(x) : x \in {value} } : TRUE

\* Exceptions
NoExc == [type |-> "none", key |-> ""]
KeyError(k) == [type |-> "KeyError", key |-> k]
AttributeError(a) == [type |-> "AttributeError", key |-> a]

Returned(v, lg) == [exc |-> NoExc, val |-> v, log |-> lg]
Raised(e, lg) == [exc |-> e, val |-> <<>>, log |-> lg]

---------------------------------------------------------------------------
(* parse_ref: re.findall(r"ref\(['\"]([\w\_\-\ ]+)['\"]\)", text)          *)

Quotes == {"'", "\""}

\* the character class [\w\_\-\ ]
InClass(c) == c \in Range(LowerSeq) \cup Range(UpperSeq) \cup Digits \cup {"_", "-", " "}

\* the length of the longest run of class characters of str that starts at j
RECURSIVE RunLen(_, _)
RunLen(str, j) ==
    IF j <= Len(str) /\ InClass(str[j]) THEN 1 + RunLen(str, j + 1) ELSE 0

RefOpen == <<"r", "e", "f", "(">>

\* The length of the group captured by a match of the pattern that starts at
\* i, or 0 when the pattern does not match there.  The group is greedy and
\* neither quote is a class character, so only the longest run can be
\* followed by the closing quote.
MatchAt(str, i) ==
    With(RunLen(str, i + 5), LAMBDA n :
        IF /\ i + 6 + n <= Len(str)
           /\ SubSeq(str, i, i + 3) = RefOpen
           /\ str[i + 4] \in Quotes
           /\ n >= 1
           /\ str[i + 5 + n] \in Quotes
           /\ str[i + 6 + n] = ")"
        THEN n ELSE 0)

\* re.findall from position i: the groups of the non-overlapping matches,
\* leftmost first.
RECURSIVE findall(_, _)
findall(str, i) ==
    IF i > Len(str) THEN <<>>
    ELSE With(MatchAt(str, i), LAMBDA n :
             IF n > 0
             THEN <<SubSeq(str, i + 5, i + 4 + n)>> \o findall(str, i + 7 + n)
             ELSE findall(str, i + 1))

parse_ref(str) ==
    With(findall(str, 1), LAMBDA matches :
        IF matches # <<>> THEN matches[1] ELSE str)

---------------------------------------------------------------------------
(* The arguments parse_ref is called on.                                   *)

RefExpr(q1, name, q2) == RefOpen \o <<q1>> \o name \o <<q2>> \o <<")">>

RefNames == { <<"a">>, <<"b", "-", "c">>, <<>>, <<"a", "$">> }

Pieces ==
    { RefExpr(q1, n, q2) : q1 \in Quotes, n \in RefNames, q2 \in Quotes }
    \cup { RefOpen, <<"'">>, <<")">>, <<"x", " ">>, <<"r", "e", "f">>,
           RefOpen \o <<"'", "a", "'">>, <<"\"", "a", "\"", ")">> }

RECURSIVE Concat(_)
Concat(ps) == IF ps = <<>> THEN <<>> ELSE Head(ps) \o Concat(Tail(ps))

SeqsUpTo(S, n) == UNION { [1..k -> S] : k \in 0..n }

Texts == { Concat(ps) : ps \in SeqsUpTo(Pieces, MaxPieces) }

ParseRef ==
    /\ ref_pc = "call"
    /\ ref_out' = parse_ref(text)
    /\ ref_pc' = "done"
    /\ UNCHANGED <<text, colVars, scanVars>>

---------------------------------------------------------------------------
(* read_column                                                             *)

\* Allowed metabase.* fields
_META_FIELDS == <<"semantic_type", "visibility_type">>

MetaKey(field) == "metabase." \o field

TypeFK == <<"t", "y", "p", "e", "/", "F", "K">>

DeprecationWarning == "DEPRECATION: metabase.special_type"

\* mb_column = {"name": ..., "description": ...}
NewColumn(col) ==
    [name |-> upper(Get(col, "name", <<>>)),
     description |-> Get(col, "description", None)]

\* isinstance(test, dict) and "relationships" in test
IsRelationshipTest(test) ==
    test.kind = "dict" /\ "relationships" \in DOMAIN test.value

\* Faulty variant of ApplyRelationship: the target field is never stored.
ApplyRelationshipNoField(col, mb, test) ==
    LET relationships == test.value["relationships"]
        mb1 == SetItem(mb, "semantic_type", TypeFK)
    IN  IF "to" \notin DOMAIN relationships THEN Raised(KeyError("to"), <<>>)
        ELSE IF "field" \notin DOMAIN relationships THEN Raised(KeyError("field"), <<>>)
        ELSE Returned(
                SetItem(mb1, "fk_target_table",
                        upper(Get(Get(col, "meta", <<>>), "metabase.fk_ref",
                                  parse_ref(relationships["to"])))),
                <<>>)

\* Faulty variant of ApplyRelationship: metabase.fk_ref is ignored.
ApplyRelationshipNoFkRef(col, mb, test) ==
    LET relationships == test.value["relationships"]
        mb1 == SetItem(mb, "semantic_type", TypeFK)
    IN  IF "to" \notin DOMAIN relationships THEN Raised(KeyError("to"), <<>>)
        ELSE IF "field" \notin DOMAIN relationships THEN Raised(KeyError("field"), <<>>)
        ELSE Returned(
                SetItem(SetItem(mb1, "fk_target_table",
                                upper(parse_ref(relationships["to"]))),
                        "fk_target_field", upper(relationships["field"])),
                <<>>)

\* The body of the two ifs of the tests loop.  The default of the inner
\* .get is evaluated before the call, so relationships["to"] is looked up
\* whether or not the column has a metabase.fk_ref.
ApplyRelationship(col, mb, test) ==
    LET relationships == test.value["relationships"]
        mb1 == SetItem(mb, "semantic_type", TypeFK)
    IN  IF "to" \notin DOMAIN relationships THEN Raised(KeyError("to"), <<>>)
        ELSE IF "field" \notin DOMAIN relationships THEN Raised(KeyError("field"), <<>>)
        ELSE Returned(
                SetItem(SetItem(mb1, "fk_target_table",
                                upper(Get(Get(col, "meta", <<>>), "metabase.fk_ref",
                                          parse_ref(relationships["to"])))),
                        "fk_target_field", upper(relationships["field"])),
                <<>>)

\* Faulty variant of TestsLoop: a relationship test after the first one is
\* still looked up but no longer overwrites the targets.
RECURSIVE TestsLoopFirstWins(_, _, _)
TestsLoopFirstWins(col, mb, i) ==
    LET tests == Get(col, "tests", <<>>)
    IN  IF i > Len(tests) THEN Returned(mb, <<>>)
        ELSE IF IsRelationshipTest(tests[i])
             THEN With(ApplyRelationship(col, mb, tests[i]), LAMBDA r :
                      IF r.exc # NoExc THEN r
                      ELSE TestsLoopFirstWins(
                               col,
                               IF "fk_target_table" \in DOMAIN mb THEN mb ELSE r.val,
                               i + 1))
             ELSE TestsLoopFirstWins(col, mb, i + 1)

\* for test in column.get("tests", []), from the i-th test on
RECURSIVE TestsLoop(_, _, _)
TestsLoop(col, mb, i) ==
    LET tests == Get(col, "tests", <<>>)
    IN  IF i > Len(tests) THEN Returned(mb, <<>>)
        ELSE IF IsRelationshipTest(tests[i])
             THEN With(ApplyRelationship(col, mb, tests[i]), LAMBDA r :
                      IF r.exc # NoExc THEN r ELSE TestsLoop(col, r.val, i + 1))
             ELSE TestsLoop(col, mb, i + 1)

\* for field in _META_FIELDS, from the i-th field on
RECURSIVE MetaFieldsLoop(_, _, _)
MetaFieldsLoop(meta, mb, i) ==
    IF i > Len(_META_FIELDS) THEN mb
    ELSE LET field == _META_FIELDS[i]
         IN  IF MetaKey(field) \in DOMAIN meta
             THEN MetaFieldsLoop(meta, SetItem(mb, field, meta[MetaKey(field)]), i + 1)
             ELSE MetaFieldsLoop(meta, mb, i + 1)

\* Faulty variant of SpecialType: the deprecated key overrides whatever
\* semantic_type is already set.
SpecialTypeOverrides(meta, mb) ==
    IF "metabase.special_type" \in DOMAIN meta
    THEN Returned(SetItem(mb, "semantic_type", meta["metabase.special_type"]),
                  <<DeprecationWarning>>)
    ELSE Returned(mb, <<>>)

\* remove deprecation in future
SpecialType(meta, mb) ==
    IF "metabase.special_type" \in DOMAIN meta
    THEN Returned(IF "semantic_type" \notin DOMAIN mb
                  THEN SetItem(mb, "semantic_type", meta["metabase.special_type"])
                  ELSE mb,
                  <<DeprecationWarning>>)
    ELSE Returned(mb, <<>>)

\* if "meta" in column: ...
ApplyMeta(col, mb) ==
    IF "meta" \in DOMAIN col
    THEN SpecialType(col["meta"], MetaFieldsLoop(col["meta"], mb, 1))
    ELSE Returned(mb, <<>>)

read_column(col) ==
    With(TestsLoop(col, NewColumn(col), 1), LAMBDA r :
        IF r.exc # NoExc THEN r ELSE ApplyMeta(col, r.val))

---------------------------------------------------------------------------
(* The columns read_column is called on.                                   *)

\* every dict with some of the keys of `full`, each with the value `full` gives it
SubDicts(full) == { [k \in ks |-> full[k]] : ks \in SUBSET DOMAIN full }

\* every dict that gives each key of `keys` a value of choices[key] or leaves it out
RECURSIVE OptDicts(_, _)
OptDicts(keys, choices) ==
    IF keys = {} THEN { <<>> }
    ELSE LET k == CHOOSE x \in keys : TRUE
             rest == OptDicts(keys \ {k}, choices)
         IN  rest \cup { SetItem(r, k, v) : r \in rest, v \in choices[k] }

RefA == RefExpr("'", <<"a">>, "'")

Relationships ==
    OptDicts({"to", "field"},
             [to |-> {RefA, <<"b">>}, field |-> {<<"i", "d">>, <<"k">>}])

Tests ==
    { [kind |-> "str", str |-> <<"u">>],
      [kind |-> "dict", value |-> [not_null |-> None]] }
    \cup { [kind |-> "dict", value |-> [relationships |-> r]] : r \in Relationships }

Metas ==
    SubDicts([k \in {"metabase.semantic_type", "metabase.visibility_type",
                     "metabase.special_type", "metabase.fk_ref"} |->
              CASE k = "metabase.semantic_type" -> <<"t", "y", "p", "e", "/", "P", "K">>
                [] k = "metabase.visibility_type" -> <<"h", "i", "d", "d", "e", "n">>
                [] k = "metabase.special_type" -> <<"t", "y", "p", "e", "/", "C">>
                [] k = "metabase.fk_ref" -> <<"s", ".", "t">>])

Columns ==
    { c \in OptDicts({"name", "description", "tests", "meta"},
                     [name |-> {<<"i", "d">>},
                      description |-> {<<"d">>},
                      tests |-> SeqsUpTo(Tests, MaxTests),
                      meta |-> Metas]) :
        \* a description only on a named column
        "description" \in DOMAIN c => "name" \in DOMAIN c }

ReadColumn ==
    /\ col_pc = "call"
    /\ col_out' = read_column(column)
    /\ col_pc' = "done"
    /\ UNCHANGED <<column, refVars, scanVars>>

---------------------------------------------------------------------------
(* read_model                                                              *)

\* for column in model.get("columns", []): mb_columns.append(...), from the
\* i-th column on; the warnings of the columns already read stay logged
\* when a later column raises.
RECURSIVE ColumnsLoop(_, _, _, _)
ColumnsLoop(model, mb_columns, lg, i) ==
    LET columns == Get(model, "columns", <<>>)
    IN  IF i > Len(columns) THEN Returned(mb_columns, lg)
        ELSE With(read_column(columns[i]), LAMBDA r :
                 IF r.exc # NoExc THEN Raised(r.exc, lg \o r.log)
                 ELSE ColumnsLoop(model, Append(mb_columns, r.val), lg \o r.log, i + 1))

\* model.get("identifier", model["name"]): the default is evaluated before
\* the call, so model["name"] is looked up whether or not there is an
\* identifier.
IdentifierOrName(model) ==
    IF "name" \notin DOMAIN model THEN Raised(KeyError("name"), <<>>)
    ELSE Returned(Get(model, "identifier", model["name"]), <<>>)

read_model(model) ==
    With(ColumnsLoop(model, <<>>, <<>>, 1), LAMBDA cols :
        IF cols.exc # NoExc THEN cols
        ELSE With(IdentifierOrName(model), LAMBDA name :
                 IF name.exc # NoExc THEN Raised(name.exc, cols.log)
                 ELSE Returned([name |-> upper(name.val),
                                description |-> Get(model, "description", None),
                                columns |-> cols.val],
                               cols.log)))

---------------------------------------------------------------------------
(* read_models                                                             *)

SkipWarning == "Skipping empty or invalid YAML"

\* Faulty variant of Selected: a name in includes is selected even when it
\* is in excludes.
SelectedIncludesFirst(name, incl, excl) ==
    IF incl = <<>> THEN name \notin Range(excl) ELSE name \in Range(incl)

\* (not includes or name in includes) and (name not in excludes)
Selected(name, incl, excl) ==
    (incl = <<>> \/ name \in Range(incl)) /\ name \notin Range(excl)

\* Faulty variant of ProcessEntry: a model is not appended when the list
\* already holds a model of the same name.
ProcessEntryDedup(model, incl, excl, acc) ==
    With(IdentifierOrName(model), LAMBDA name :
        IF name.exc # NoExc THEN name
        ELSE IF Selected(name.val, incl, excl)
             THEN With(read_model(model), LAMBDA r :
                      IF r.exc # NoExc THEN r
                      ELSE IF \E i \in DOMAIN acc : acc[i]["name"] = r.val["name"]
                      THEN Returned(acc, r.log)
                      ELSE Returned(Append(acc, r.val), r.log))
             ELSE Returned(acc, <<>>))

\* The body of either entry loop: resolve the name, filter, read, append.
\* The value of the outcome is the list after the entry.
ProcessEntry(model, incl, excl, acc) ==
    With(IdentifierOrName(model), LAMBDA name :
        IF name.exc # NoExc THEN name
        ELSE IF Selected(name.val, incl, excl)
             THEN With(read_model(model), LAMBDA r :
                      IF r.exc # NoExc THEN r
                      ELSE Returned(Append(acc, r.val), r.log))
             ELSE Returned(acc, <<>>))

\* the schema of the document being processed
Schema == docs[di].value
Models == Get(Schema, "models", <<>>)
Sources == Get(Schema, "sources", <<>>)
Tables == Get(Sources[si], "tables", <<>>)

\* an exception leaves read_models: nothing is returned
Raise(e, lg) ==
    /\ pc' = "raised"
    /\ exc' = e
    /\ warnings' = warnings \o lg
    /\ UNCHANGED <<mb_models, ret>>

\* schema is None: warn and continue with the next path
SkipDocument ==
    /\ pc = "rglob"
    /\ di < Len(docs)
    /\ docs[di + 1].kind = "null"
    /\ di' = di + 1
    /\ warnings' = Append(warnings, SkipWarning)
    /\ UNCHANGED <<docs, includes, excludes, pc, mi, si, ti, mb_models, ret, exc>>
    /\ UNCHANGED <<refVars, colVars>>

\* schema is a mapping: enter the models loop
OpenDocument ==
    /\ pc = "rglob"
    /\ di < Len(docs)
    /\ docs[di + 1].kind = "dict"
    /\ di' = di + 1
    /\ pc' = "models"
    /\ mi' = 1
    /\ UNCHANGED <<docs, includes, excludes, si, ti, mb_models, ret, exc, warnings>>
    /\ UNCHANGED <<refVars, colVars>>

\* schema is neither None nor a mapping: schema.get raises
NotAMapping ==
    /\ pc = "rglob"
    /\ di < Len(docs)
    /\ docs[di + 1].kind \notin {"null", "dict"}
    /\ di' = di + 1
    /\ Raise(AttributeError("get"), <<>>)
    /\ UNCHANGED <<docs, includes, excludes, mi, si, ti>>
    /\ UNCHANGED <<refVars, colVars>>

\* Faulty variant of Continue: the exception of an entry is swallowed and
\* the loop goes on with the next entry.
ContinueSwallow(r) ==
    /\ mb_models' = IF r.exc # NoExc THEN mb_models ELSE r.val
    /\ warnings' = warnings \o r.log
    /\ UNCHANGED <<pc, ret, exc>>

\* the outcome r of an entry: the exception leaves read_models, or the loop goes on
Continue(r) ==
    IF r.exc # NoExc
    THEN Raise(r.exc, r.log)
    ELSE /\ mb_models' = r.val
         /\ warnings' = warnings \o r.log
         /\ UNCHANGED <<pc, ret, exc>>

\* for model in schema.get("models", [])
ModelEntry ==
    /\ pc = "models"
    /\ mi <= Len(Models)
    /\ \E r \in {ProcessEntry(Models[mi], includes, excludes, mb_models)} : Continue(r)
    /\ mi' = mi + 1
    /\ UNCHANGED <<docs, includes, excludes, di, si, ti>>
    /\ UNCHANGED <<refVars, colVars>>

ModelsDone ==
    /\ pc = "models"
    /\ mi > Len(Models)
    /\ pc' = "sources"
    /\ si' = 1
    /\ ti' = 1
    /\ UNCHANGED <<docs, includes, excludes, di, mi, mb_models, ret, exc, warnings>>
    /\ UNCHANGED <<refVars, colVars>>

\* for source in schema.get("sources", []): for model in source.get("tables", [])
TableEntry ==
    /\ pc = "sources"
    /\ si <= Len(Sources)
    /\ ti <= Len(Tables)
    /\ \E r \in {ProcessEntry(Tables[ti], includes, excludes, mb_models)} : Continue(r)
    /\ ti' = ti + 1
    /\ UNCHANGED <<docs, includes, excludes, di, mi, si>>
    /\ UNCHANGED <<refVars, colVars>>

TablesDone ==
    /\ pc = "sources"
    /\ si <= Len(Sources)
    /\ ti > Len(Tables)
    /\ si' = si + 1
    /\ ti' = 1
    /\ UNCHANGED <<docs, includes, excludes, pc, di, mi, mb_models, ret, exc, warnings>>
    /\ UNCHANGED <<refVars, colVars>>

SourcesDone ==
    /\ pc = "sources"
    /\ si > Len(Sources)
    /\ pc' = "rglob"
    /\ UNCHANGED <<docs, includes, excludes, di, mi, si, ti, mb_models, ret, exc, warnings>>
    /\ UNCHANGED <<refVars, colVars>>

\* return mb_models
Return ==
    /\ pc = "rglob"
    /\ di = Len(docs)
    /\ pc' = "returned"
    /\ ret' = mb_models
    /\ UNCHANGED <<docs, includes, excludes, di, mi, si, ti, mb_models, exc, warnings>>
    /\ UNCHANGED <<refVars, colVars>>

---------------------------------------------------------------------------
(* The projects read_models is called on.                                  *)

GoodColumn ==
    [name |-> <<"i", "d">>,
     tests |-> << [kind |-> "dict",
                   value |-> [relationships |-> [to |-> RefA, field |-> <<"k">>]]] >>]

\* a relationship test without `field`
BadColumn ==
    [name |-> <<"i", "d">>,
     tests |-> << [kind |-> "dict", value |-> [relationships |-> [to |-> RefA]]] >>]

Names == { <<"a">>, <<"b">> }

Entries ==
    { e \in OptDicts({"identifier", "name", "columns"},
                     [identifier |-> {<<"b">>},
                      name |-> {<<"a">>},
                      columns |-> {<<GoodColumn>>, <<BadColumn>>}]) :
        "columns" \in DOMAIN e =>
            /\ "name" \in DOMAIN e
            /\ ("identifier" \in DOMAIN e <=> e["columns"] = <<GoodColumn>>) }

\* a dict with the key only when the list is not empty
ListDict(k, list) == IF list = <<>> THEN <<>> ELSE SetItem(<<>>, k, list)

Merge(d1, d2) ==
    [k \in (DOMAIN d1) \cup (DOMAIN d2) |-> IF k \in DOMAIN d1 THEN d1[k] ELSE d2[k]]

\* the lists of sources that hold at most n sources and tables in total
RECURSIVE SourceSeqs(_)
SourceSeqs(n) ==
    IF n <= 0 THEN { <<>> }
    ELSE { <<>> } \cup
         UNION { { <<ListDict("tables", tb)>> \o rest : rest \in SourceSeqs(n - 1 - Len(tb)) } :
                 tb \in SeqsUpTo(Entries, n - 1) }

\* the documents that hold at most n - 1 sources and entries in total
Documents(n) ==
    { [kind |-> "null"],
      [kind |-> "list", list |-> <<>>],
      [kind |-> "str", str |-> <<"x">>] }
    \cup UNION { { [kind |-> "dict", value |-> Merge(ListDict("models", ms), ListDict("sources", ss))] :
                   ss \in SourceSeqs(n - 1 - Len(ms)) } :
                 ms \in SeqsUpTo(Entries, n - 1) }

RECURSIVE Sum(_)
Sum(ns) == IF ns = <<>> THEN 0 ELSE Head(ns) + Sum(Tail(ns))

\* documents, sources and entries of a document
Size(doc) ==
    IF doc.kind # "dict" THEN 1
    ELSE 1 + Len(Get(doc.value, "models", <<>>))
           + Sum([i \in DOMAIN Get(doc.value, "sources", <<>>) |->
                     1 + Len(Get(Get(doc.value, "sources", <<>>)[i], "tables", <<>>))])

\* the lists of documents that hold at most n documents, sources and entries in total
RECURSIVE Projects(_)
Projects(n) ==
    IF n <= 0 THEN { <<>> }
    ELSE { <<>> } \cup
         UNION { { <<doc>> \o rest : rest \in Projects(n - Size(doc)) } : doc \in Documents(n) }

FilterLists == { <<>> } \cup { <<n>> : n \in Names }

---------------------------------------------------------------------------
(* Specifications: one per entry point; the variables of the others stay   *)
(* idle.                                                                   *)

SpecRefInit ==
    /\ text \in Texts
    /\ ref_out = None
    /\ ref_pc = "call"
    /\ column = <<>> /\ col_out = Returned(<<>>, <<>>) /\ col_pc = "idle"
    /\ docs = <<>> /\ includes = <<>> /\ excludes = <<>>
    /\ pc = "idle"
    /\ di = 0 /\ mi = 0 /\ si = 0 /\ ti = 0
    /\ mb_models = <<>> /\ ret = <<>> /\ exc = NoExc /\ warnings = <<>>

SpecRef == SpecRefInit /\ [][ParseRef]_vars

SpecColInit ==
    /\ column \in Columns
    /\ col_out = Returned(<<>>, <<>>)
    /\ col_pc = "call"
    /\ text = <<>> /\ ref_out = None /\ ref_pc = "idle"
    /\ docs = <<>> /\ includes = <<>> /\ excludes = <<>>
    /\ pc = "idle"
    /\ di = 0 /\ mi = 0 /\ si = 0 /\ ti = 0
    /\ mb_models = <<>> /\ ret = <<>> /\ exc = NoExc /\ warnings = <<>>

SpecCol == SpecColInit /\ [][ReadColumn]_vars

Init ==
    /\ docs \in Projects(MaxSize)
    /\ includes \in FilterLists
    /\ excludes \in FilterLists
    /\ pc = "rglob"
    /\ di = 0 /\ mi = 0 /\ si = 0 /\ ti = 0
    /\ mb_models = <<>>
    /\ ret = <<>>
    /\ exc = NoExc
    /\ warnings = <<>>
    /\ text = <<>> /\ ref_out = None /\ ref_pc = "idle"
    /\ column = <<>> /\ col_out = Returned(<<>>, <<>>) /\ col_pc = "idle"

Next ==
    \/ SkipDocument
    \/ OpenDocument
    \/ NotAMapping
    \/ ModelEntry
    \/ ModelsDone
    \/ TableEntry
    \/ TablesDone
    \/ SourcesDone
    \/ Return

Spec == Init /\ [][Next]_vars

\* read_models is one synchronous call: it keeps running until it returns
\* or raises.
FairSpec == Init /\ [][Next]_vars /\ WF_vars(Next)

---------------------------------------------------------------------------
(* Properties of parse_ref (checked under SpecRef).                        *)

\* text holds, from position i, ref('X') or ref("X") with the same quote on
\* both sides and X a run of n >= 1 class characters
WellFormedRefAt(str, i, n) ==
    /\ n >= 1
    /\ i + 6 + n <= Len(str)
    /\ SubSeq(str, i, i + 3) = <<"r", "e", "f", "(">>
    /\ str[i + 4] \in {"'", "\""}
    /\ \A j \in (i + 5)..(i + 4 + n) : InClass(str[j])
    /\ str[i + 5 + n] = str[i + 4]
    /\ str[i + 6 + n] = ")"

WellFormedRefs(str) ==
    { p \in (1..Len(str)) \X (1..Len(str)) : WellFormedRefAt(str, p[1], p[2]) }

FirstWellFormedRef(str) ==
    CHOOSE p \in WellFormedRefs(str) : \A q \in WellFormedRefs(str) : p[1] <= q[1]

\* C9: parse_ref returns the X of the first expression ref('X') or ref("X")
\* (one quoting style on both sides) of the text, and returns every text
\* without such an expression unchanged.
C9_ParseRefSameQuotes ==
    ref_pc = "done" =>
        ref_out = IF WellFormedRefs(text) # {}
                  THEN LET p == FirstWellFormedRef(text)
                       IN  SubSeq(text, p[1] + 5, p[1] + 4 + p[2])
                  ELSE text

---------------------------------------------------------------------------
(* Properties of read_column (checked under SpecCol).                      *)

ColTests == Get(column, "tests", <<>>)

ColMeta == Get(column, "meta", <<>>)

\* the positions of the mapping tests with a `relationships` key
RelIdx ==
    { i \in DOMAIN ColTests :
        ColTests[i].kind = "dict" /\ "relationships" \in DOMAIN ColTests[i].value }

RelAt(i) == ColTests[i].value["relationships"]

FirstRel == RelAt(CHOOSE i \in RelIdx : \A j \in RelIdx : i <= j)

LastRel == RelAt(CHOOSE i \in RelIdx : \A j \in RelIdx : i >= j)

\* read_column returned normally
ColReturned == col_pc = "done" /\ col_out.exc = NoExc

Mb == col_out.val

IsSet(k) == k \in DOMAIN Mb

\* the target table a relationship gives: the fk_ref annotation, else the
\* parsed `to`, uppercased
TargetTable(rel) ==
    upper(IF "metabase.fk_ref" \in DOMAIN ColMeta
          THEN ColMeta["metabase.fk_ref"]
          ELSE parse_ref(rel["to"]))

\* C2: on normal return fk_target_table and fk_target_field are both set or
\* both absent, and they are set exactly when the column has a mapping test
\* with a `relationships` key.
C2_FkBothOrNeither ==
    ColReturned =>
        /\ IsSet("fk_target_table") <=> IsSet("fk_target_field")
        /\ IsSet("fk_target_table") <=> RelIdx # {}

\* a column with a bare label, a mapping test without relationships and a
\* relationship test, after read_column set both targets
C2_Witness ==
    /\ ColReturned
    /\ Len(ColTests) = 2
    /\ ColTests[1].kind = "str"
    /\ RelIdx = {2}
    /\ IsSet("fk_target_table") /\ IsSet("fk_target_field")

\* C3 (as stated): with several relationship tests the targets are those of
\* the first one.
C3_FirstRelationshipWins ==
    (ColReturned /\ RelIdx # {}) =>
        /\ Mb["fk_target_table"] = TargetTable(FirstRel)
        /\ Mb["fk_target_field"] = upper(FirstRel["field"])

\* C3 (amended): with several relationship tests the targets are those of
\* the last one; every relationship test overwrites the earlier ones.
C3_LastRelationshipWins ==
    (ColReturned /\ RelIdx # {}) =>
        /\ Mb["fk_target_table"] = TargetTable(LastRel)
        /\ Mb["fk_target_field"] = upper(LastRel["field"])

\* two relationship tests that differ in `to` and `field`, without fk_ref
C3_Witness ==
    /\ ColReturned
    /\ RelIdx = {1, 2}
    /\ "metabase.fk_ref" \notin DOMAIN ColMeta
    /\ FirstRel["to"] = <<"b">> /\ FirstRel["field"] = <<"i", "d">>
    /\ LastRel["to"] = RefA /\ LastRel["field"] = <<"k">>
    /\ Mb["fk_target_table"] = <<"A">>
    /\ Mb["fk_target_field"] = <<"K">>

\* C4: metabase.semantic_type wins when present; otherwise "type/FK" when a
\* relationship test is present; metabase.special_type only when neither;
\* metabase.visibility_type, when present, is the visibility_type.
C4_SemanticTypePrecedence ==
    ColReturned =>
        /\ IF "metabase.semantic_type" \in DOMAIN ColMeta
           THEN IsSet("semantic_type")
                /\ Mb["semantic_type"] = ColMeta["metabase.semantic_type"]
           ELSE IF RelIdx # {}
           THEN IsSet("semantic_type") /\ Mb["semantic_type"] = <<"t", "y", "p", "e", "/", "F", "K">>
           ELSE IF "metabase.special_type" \in DOMAIN ColMeta
           THEN IsSet("semantic_type")
                /\ Mb["semantic_type"] = ColMeta["metabase.special_type"]
           ELSE ~IsSet("semantic_type")
        /\ "metabase.visibility_type" \in DOMAIN ColMeta =>
               IsSet("visibility_type")
               /\ Mb["visibility_type"] = ColMeta["metabase.visibility_type"]

\* a relationship test and the deprecated annotation, no semantic_type
\* annotation: the detected type stays and the deprecation is logged
C4_Witness ==
    /\ ColReturned
    /\ RelIdx # {}
    /\ "metabase.special_type" \in DOMAIN ColMeta
    /\ "metabase.semantic_type" \notin DOMAIN ColMeta
    /\ "metabase.visibility_type" \in DOMAIN ColMeta
    /\ Mb["semantic_type"] = <<"t", "y", "p", "e", "/", "F", "K">>
    /\ col_out.log = <<DeprecationWarning>>

\* C7: for a column with a relationship test, fk_target_table is the
\* uppercased metabase.fk_ref when the meta has it and otherwise the
\* uppercased parse_ref of `to`; fk_target_field is the uppercased `field`;
\* semantic_type is "type/FK" unless metabase.semantic_type overrides it.
\* (With several relationship tests, "the" test is the last one: C3.)
C7_FkTarget ==
    (ColReturned /\ RelIdx # {}) =>
        /\ Mb["fk_target_table"] =
               IF "metabase.fk_ref" \in DOMAIN ColMeta
               THEN upper(ColMeta["metabase.fk_ref"])
               ELSE upper(parse_ref(LastRel["to"]))
        /\ Mb["fk_target_field"] = upper(LastRel["field"])
        /\ "metabase.semantic_type" \notin DOMAIN ColMeta =>
               Mb["semantic_type"] = <<"t", "y", "p", "e", "/", "F", "K">>

\* one relationship test to ref('a') on a column with an fk_ref annotation
C7_Witness ==
    /\ ColReturned
    /\ Cardinality(RelIdx) = 1
    /\ LastRel["to"] = RefA
    /\ LastRel["field"] = <<"i", "d">>
    /\ "metabase.fk_ref" \in DOMAIN ColMeta
    /\ Mb["fk_target_table"] = <<"S", ".", "T">>
    /\ Mb["fk_target_field"] = <<"I", "D">>
    /\ Mb["semantic_type"] = <<"t", "y", "p", "e", "/", "F", "K">>

---------------------------------------------------------------------------
(* Properties of read_models (checked under Spec).                         *)

\* the tables of a list of sources, in declaration order
RECURSIVE TablesOf(_)
TablesOf(sources) ==
    IF sources = <<>> THEN <<>>
    ELSE Get(Head(sources), "tables", <<>>) \o TablesOf(Tail(sources))

\* the entries of a document: its models, then the tables of its sources;
\* none for a document that is not a mapping
EntriesOf(doc) ==
    IF doc.kind = "dict"
    THEN Get(doc.value, "models", <<>>) \o TablesOf(Get(doc.value, "sources", <<>>))
    ELSE <<>>

\* the entries of a list of documents, in discovery order
RECURSIVE AllEntries(_)
AllEntries(ds) == IF ds = <<>> THEN <<>> ELSE EntriesOf(Head(ds)) \o AllEntries(Tail(ds))

HasNoName(e) == "identifier" \notin DOMAIN e /\ "name" \notin DOMAIN e

\* identifier if present, else name
ResolvedName(e) == IF "identifier" \in DOMAIN e THEN e["identifier"] ELSE e["name"]

\* (includes is empty or name in includes) and name not in excludes
PassesFilter(e) ==
    /\ includes = <<>> \/ \E i \in DOMAIN includes : includes[i] = ResolvedName(e)
    /\ \A i \in DOMAIN excludes : excludes[i] # ResolvedName(e)

\* a relationship test without `to` or without `field`
HasBadColumn(e) ==
    \E i \in DOMAIN Get(e, "columns", <<>>) :
        LET tests == Get(e["columns"][i], "tests", <<>>)
        IN  \E j \in DOMAIN tests :
                /\ tests[j].kind = "dict"
                /\ "relationships" \in DOMAIN tests[j].value
                /\ {"to", "field"} \ DOMAIN tests[j].value["relationships"] # {}

\* the entry a step of one of the two entry loops processes
AtModel == pc = "models" /\ mi <= Len(Models)
AtTable == pc = "sources" /\ si <= Len(Sources) /\ ti <= Len(Tables)
CurrentEntry == IF AtModel THEN Models[mi] ELSE Tables[ti]

\* C1: an entry whose processing does not raise is appended to the output
\* if and only if (includes is empty or its resolved name is in includes)
\* and its resolved name is not in excludes; otherwise the output is left
\* as it is.
C1_FilterPolicy ==
    [][ ((AtModel \/ AtTable) /\ pc' # "raised") =>
            IF PassesFilter(CurrentEntry)
            THEN /\ Len(mb_models') = Len(mb_models) + 1
                 /\ SubSeq(mb_models', 1, Len(mb_models)) = mb_models
                 /\ mb_models'[Len(mb_models')]["name"] = upper(ResolvedName(CurrentEntry))
            ELSE mb_models' = mb_models ]_vars

\* a returned scan with includes = excludes = [a]: the entry named a was
\* left out although it is included
C1_Witness ==
    /\ pc = "returned"
    /\ includes = << <<"a">> >>
    /\ excludes = << <<"a">> >>
    /\ Len(AllEntries(docs)) = 2
    /\ \E i \in 1..2 : ResolvedName(AllEntries(docs)[i]) = <<"a">>
    /\ ret = <<>>

\* C5: the resolved name is identifier if present, else name: resolving the
\* name fails only for an entry that has neither, and every model returned
\* carries the uppercased identifier-or-name of its entry.
C5_IdentifierElseName ==
    /\ exc = KeyError("name") =>
           \E i \in DOMAIN AllEntries(docs) : HasNoName(AllEntries(docs)[i])
    /\ pc = "returned" =>
           \A i \in DOMAIN ret :
               \E j \in DOMAIN AllEntries(docs) :
                   ret[i]["name"] = upper(ResolvedName(AllEntries(docs)[j]))

\* C6: a document that is empty (null) or not a mapping never ends the scan
\* with an error: the scan goes on to the next document.
C6_NonMappingSkipped ==
    ~(pc = "raised" /\ di >= 1 /\ docs[di].kind \in {"null", "list", "str"})

\* the models the scan is to return: the entries that pass the filter, in
\* order, each read by read_model
RECURSIVE ExpectedModels(_)
ExpectedModels(es) ==
    IF es = <<>> THEN <<>>
    ELSE (IF PassesFilter(Head(es)) THEN <<read_model(Head(es)).val>> ELSE <<>>)
         \o ExpectedModels(Tail(es))

\* C8: the list returned is the concatenation, in document order, of the
\* filtered entries of every document that is not skipped, models before
\* source tables, each in declaration order; nothing is dropped or merged
\* for having the same name as another entry.
C8_OutputOrder ==
    pc = "returned" =>
        /\ ret = ExpectedModels(AllEntries(docs))
        /\ Len(ret) = Cardinality({ i \in DOMAIN AllEntries(docs) :
                                       PassesFilter(AllEntries(docs)[i]) })

\* a document with a model and a source table that resolve to the same name,
\* both returned, the model first
C8_Witness ==
    /\ pc = "returned"
    /\ Len(docs) = 1
    /\ docs[1].kind = "dict"
    /\ Len(Get(docs[1].value, "models", <<>>)) = 1
    /\ Len(TablesOf(Get(docs[1].value, "sources", <<>>))) = 1
    /\ "columns" \in DOMAIN docs[1].value["models"][1]
    /\ "columns" \notin DOMAIN TablesOf(docs[1].value["sources"])[1]
    /\ Len(ret) = 2
    /\ ret[1]["name"] = <<"B">> /\ ret[2]["name"] = <<"B">>
    /\ ret[1]["columns"] # <<>> /\ ret[2]["columns"] = <<>>

\* an entry of a document that is not skipped which cannot be read: it has
\* neither identifier nor name, or it passes the filter and has a
\* relationship test without `to` or `field`
MalformedSelected(e) ==
    HasNoName(e) \/ (PassesFilter(e) /\ HasBadColumn(e))

HasMalformedSelected ==
    \E i \in DOMAIN AllEntries(docs) : MalformedSelected(AllEntries(docs)[i])

\* C10: with a malformed entry that passes the filter the scan never
\* returns a list, whatever it accumulated before, and it ends with an
\* error; a scan that raised returned nothing and keeps its exception.
C10_NoEntryIsolation ==
    /\ [](HasMalformedSelected => (pc # "returned" /\ ret = <<>>))
    /\ [](pc = "raised" => (ret = <<>> /\ exc # NoExc))
    /\ (HasMalformedSelected ~> (pc = "raised"))

\* the second document holds a column whose relationship test has no field:
\* the scan raised after it had accumulated the model of the first document
C10_Witness ==
    /\ pc = "raised"
    /\ exc = KeyError("field")
    /\ di = 2
    /\ Len(mb_models) = 1
    /\ ret = <<>>

=============================================================================
